---- MODULE Spec2Model ----
(***************************************************************************)
(* Model of the native capture proxy of gyazo-mcp-server                   *)
(* (src/src/capture-proxy.ts, and its later revision src/unnamed/part_001).*)
(*                                                                         *)
(* GyazoNativeMCPServer supervises one helper process, frames the helper's *)
(* stdout into newline-delimited JSON messages, and correlates responses   *)
(* with pending requests by id.                                            *)
(*                                                                         *)
(* Text is a sequence of tokens; each token is a substring of the real     *)
(* text, so the concatenation of the tokens is the text on the wire.  A    *)
(* chunk boundary can fall between any two tokens.                         *)
(***************************************************************************)
EXTENDS Integers, Sequences, FiniteSets

\* ------------------------------------------------------------------ bounds
MaxCalls == 3      \* calls of the asynchronous operations in one behaviour
MaxProcs == 2      \* helper processes spawned in one behaviour
MaxLines == 2      \* lines the helpers write to stdout in one behaviour
MaxTokens == 4     \* tokens a helper writes in one behaviour of FramerSpec

\* A behaviour has one of three budgets: all the calls and processes with
\* silent helpers; one call and one process with all the lines; or two
\* calls, two processes and one line.
Budgets ==
  {[calls |-> MaxCalls, procs |-> MaxProcs, lines |-> 0],
   [calls |-> 1, procs |-> 1, lines |-> MaxLines],
   [calls |-> 2, procs |-> 2, lines |-> 1]}

Calls == 1 .. MaxCalls
Pids  == 1 .. MaxProcs

\* ------------------------------------------------------------- text helpers
NL == "\n"
Whitespace == {" ", "\t", "\r", "\n"}

RECURSIVE splitFrom(_, _)
splitFrom(s, cur) ==
  IF s = <<>> THEN <<cur>>
  ELSE IF Head(s) = NL THEN <<cur>> \o splitFrom(Tail(s), <<>>)
  ELSE splitFrom(Tail(s), Append(cur, Head(s)))

\* data.toString().split("\n")
Split(s) == splitFrom(s, <<>>)

RECURSIVE trimStart(_)
trimStart(s) ==
  IF s # <<>> /\ Head(s) \in Whitespace THEN trimStart(Tail(s)) ELSE s

RECURSIVE trimEnd(_)
trimEnd(s) ==
  IF s # <<>> /\ s[Len(s)] \in Whitespace
  THEN trimEnd(SubSeq(s, 1, Len(s) - 1)) ELSE s

\* String.prototype.trim
Trim(s) == trimEnd(trimStart(s))

\* message.endsWith("}"): "}" is the only token that ends in a closing brace
EndsWithBrace(s) == s # <<>> /\ s[Len(s)] = "}"

RECURSIVE Concat(_)
\* the concatenation of a sequence of texts
Concat(ss) == IF ss = <<>> THEN <<>> ELSE Head(ss) \o Concat(Tail(ss))

RECURSIVE JoinWithComma(_)
\* join() with its default separator
JoinWithComma(ss) ==
  IF ss = <<>> THEN <<>>
  ELSE IF Len(ss) = 1 THEN Head(ss)
  ELSE Head(ss) \o <<",">> \o JoinWithComma(Tail(ss))

\* this.buffers.join("")
Join(ss) == Concat(ss)

\* (n).toString() of a non-negative integer
Digits == <<"0", "1", "2", "3", "4", "5", "6", "7", "8", "9">>
RECURSIVE toString(_)
toString(n) ==
  IF n < 10 THEN Digits[n + 1]
  ELSE toString(n \div 10) \o Digits[(n % 10) + 1]

\* ------------------------------------------------------ the wire protocol
\* Response envelopes the helper can write (MCPResponse plus its id).
ResultResponse(id, v) ==
  [id |-> id, hasError |-> FALSE, message |-> "", hasResult |-> TRUE, result |-> v]
ErrorResponse(id, msg) ==
  [id |-> id, hasError |-> TRUE, message |-> msg, hasResult |-> FALSE,
   result |-> "undefined"]

Responses ==
  {ResultResponse("0", "1"), ResultResponse("1", "2"), ErrorResponse("0", "boom")}

\* The text of a response envelope:
\*   {"id":"0","result":1}     {"id":"0","error":{"code":1,"message":"boom"}}
ResponseText(r) ==
  <<"{", "\"id\":\"" \o r.id \o "\"">>
    \o (IF r.hasError
        THEN <<",\"error\":", "{",
               "\"code\":1,\"message\":\"" \o r.message \o "\"", "}">>
        ELSE <<>>)
    \o (IF r.hasResult THEN <<",\"result\":" \o r.result>> ELSE <<>>)
    \o <<"}">>

\* Lines that are not response envelopes: text that is no JSON, the JSON
\* value null, and a JSON object without an id.
GarbageLine == <<"oops">>
NullLine == <<"null">>
EmptyObjectLine == <<"{", "}">>

HelperLines ==
  {ResponseText(r) : r \in Responses} \cup {GarbageLine, NullLine}

\* JSON.parse: insignificant whitespace between tokens is skipped; the text
\* is accepted iff it is exactly one JSON value.
ParseTable == {[text |-> ResponseText(r), value |-> r] : r \in Responses}
JSONparse(data) ==
  LET t == SelectSeq(data, LAMBDA tok : tok \notin Whitespace) IN
  IF \E e \in ParseTable : e.text = t
  THEN [kind |-> "object", value |-> (CHOOSE e \in ParseTable : e.text = t).value]
  ELSE IF t = EmptyObjectLine
  THEN [kind |-> "object",
        value |-> [id |-> "undefined", hasError |-> FALSE, message |-> "",
                   hasResult |-> FALSE, result |-> "undefined"]]
  ELSE IF t = NullLine
  THEN [kind |-> "null", value |-> ResultResponse("undefined", "undefined")]
  ELSE [kind |-> "SyntaxError", value |-> ResultResponse("undefined", "undefined")]

\* ---------------------------------------------------------- path resolution
DEFAULT_WIN_PATH == "C:\\Program Files (x86)\\Gyazo\\GyazoWinMCPServer.exe"
DEFAULT_MAC_PATH ==
  "/Applications/Gyazo Menu.app/Contents/Helpers/cli-tool/GyazoMacMCPServer"
DOCKER_WIN_MCP_SERVER_PATH == "/host/gyazo/GyazoWinMCPServer.exe"
DOCKER_MAC_MCP_SERVER_PATH == "/host/gyazo/GyazoMacMCPServer"
NoPath == "null"
Unset == ""

\* process.env.GYAZO_WIN_MCP_SERVER_PATH || default (an empty value is falsy)
WIN_GYAZO_MCP_SERVER_PATH(env) ==
  IF env.GYAZO_WIN_MCP_SERVER_PATH # Unset
  THEN env.GYAZO_WIN_MCP_SERVER_PATH ELSE DEFAULT_WIN_PATH
MAC_GYAZO_MCP_SERVER_PATH(env) ==
  IF env.GYAZO_MAC_MCP_SERVER_PATH # Unset
  THEN env.GYAZO_MAC_MCP_SERVER_PATH ELSE DEFAULT_MAC_PATH

existsSync(env, path) == path \in env.files

\* An environment: the OS family, the environment variables, the files that
\* exist and what /proc/1/cgroup holds ("absent", "unreadable", or the
\* runtime its text names: "docker", "containerd", "none").
isRunningInDocker(env) ==
  IF existsSync(env, "/.dockerenv") THEN TRUE
  ELSE IF env.cgroup # "absent"
  THEN (IF env.cgroup = "unreadable" THEN FALSE
        ELSE env.cgroup \in {"docker", "containerd"})
  ELSE IF env.DOCKER_CONTAINER # Unset \/ env.KUBERNETES_SERVICE_HOST # Unset
  THEN TRUE
  ELSE FALSE

\* getServerPath going on to the other candidates when the override path
\* does not exist
getServerPathFallingBack(env) ==
  IF env.GYAZO_MCP_SERVER_PATH # Unset /\ existsSync(env, env.GYAZO_MCP_SERVER_PATH)
  THEN env.GYAZO_MCP_SERVER_PATH
  ELSE IF isRunningInDocker(env)
  THEN (IF existsSync(env, DOCKER_WIN_MCP_SERVER_PATH)
        THEN DOCKER_WIN_MCP_SERVER_PATH
        ELSE IF existsSync(env, DOCKER_MAC_MCP_SERVER_PATH)
        THEN DOCKER_MAC_MCP_SERVER_PATH
        ELSE NoPath)
  ELSE IF env.os = "win32"
  THEN (IF existsSync(env, WIN_GYAZO_MCP_SERVER_PATH(env))
        THEN WIN_GYAZO_MCP_SERVER_PATH(env) ELSE NoPath)
  ELSE IF env.os = "darwin"
  THEN (IF existsSync(env, MAC_GYAZO_MCP_SERVER_PATH(env))
        THEN MAC_GYAZO_MCP_SERVER_PATH(env) ELSE NoPath)
  ELSE NoPath

\* getServerPath taking every OS that is not win32 for darwin
getServerPathElseMac(env) ==
  IF env.GYAZO_MCP_SERVER_PATH # Unset
  THEN (IF existsSync(env, env.GYAZO_MCP_SERVER_PATH)
        THEN env.GYAZO_MCP_SERVER_PATH ELSE NoPath)
  ELSE IF isRunningInDocker(env)
  THEN (IF existsSync(env, DOCKER_WIN_MCP_SERVER_PATH)
        THEN DOCKER_WIN_MCP_SERVER_PATH
        ELSE IF existsSync(env, DOCKER_MAC_MCP_SERVER_PATH)
        THEN DOCKER_MAC_MCP_SERVER_PATH
        ELSE NoPath)
  ELSE IF env.os = "win32"
  THEN (IF existsSync(env, WIN_GYAZO_MCP_SERVER_PATH(env))
        THEN WIN_GYAZO_MCP_SERVER_PATH(env) ELSE NoPath)
  ELSE (IF existsSync(env, MAC_GYAZO_MCP_SERVER_PATH(env))
        THEN MAC_GYAZO_MCP_SERVER_PATH(env) ELSE NoPath)

\* getServerPath going on to the OS default when, in a container, neither
\* mount path exists
getServerPathLeavingContainer(env) ==
  IF env.GYAZO_MCP_SERVER_PATH # Unset
  THEN (IF existsSync(env, env.GYAZO_MCP_SERVER_PATH)
        THEN env.GYAZO_MCP_SERVER_PATH ELSE NoPath)
  ELSE IF isRunningInDocker(env) /\ existsSync(env, DOCKER_WIN_MCP_SERVER_PATH)
  THEN DOCKER_WIN_MCP_SERVER_PATH
  ELSE IF isRunningInDocker(env) /\ existsSync(env, DOCKER_MAC_MCP_SERVER_PATH)
  THEN DOCKER_MAC_MCP_SERVER_PATH
  ELSE IF env.os = "win32"
  THEN (IF existsSync(env, WIN_GYAZO_MCP_SERVER_PATH(env))
        THEN WIN_GYAZO_MCP_SERVER_PATH(env) ELSE NoPath)
  ELSE IF env.os = "darwin"
  THEN (IF existsSync(env, MAC_GYAZO_MCP_SERVER_PATH(env))
        THEN MAC_GYAZO_MCP_SERVER_PATH(env) ELSE NoPath)
  ELSE NoPath

getServerPath(env) ==
  IF env.GYAZO_MCP_SERVER_PATH # Unset
  THEN (IF existsSync(env, env.GYAZO_MCP_SERVER_PATH)
        THEN env.GYAZO_MCP_SERVER_PATH ELSE NoPath)
  ELSE IF isRunningInDocker(env)
  THEN (IF existsSync(env, DOCKER_WIN_MCP_SERVER_PATH)
        THEN DOCKER_WIN_MCP_SERVER_PATH
        ELSE IF existsSync(env, DOCKER_MAC_MCP_SERVER_PATH)
        THEN DOCKER_MAC_MCP_SERVER_PATH
        ELSE NoPath)
  ELSE IF env.os = "win32"
  THEN (IF existsSync(env, WIN_GYAZO_MCP_SERVER_PATH(env))
        THEN WIN_GYAZO_MCP_SERVER_PATH(env) ELSE NoPath)
  ELSE IF env.os = "darwin"
  THEN (IF existsSync(env, MAC_GYAZO_MCP_SERVER_PATH(env))
        THEN MAC_GYAZO_MCP_SERVER_PATH(env) ELSE NoPath)
  ELSE NoPath

BareHost(os, files) ==
  [os |-> os, files |-> files, cgroup |-> "absent",
   GYAZO_MCP_SERVER_PATH |-> Unset, GYAZO_WIN_MCP_SERVER_PATH |-> Unset,
   GYAZO_MAC_MCP_SERVER_PATH |-> Unset, DOCKER_CONTAINER |-> Unset,
   KUBERNETES_SERVICE_HOST |-> Unset]

\* The environments an initialize call can find itself in.
Hosts ==
  {BareHost("darwin", {DEFAULT_MAC_PATH}),
   BareHost("win32", {}),
   BareHost("linux", {"/.dockerenv", DOCKER_MAC_MCP_SERVER_PATH}),
   [BareHost("linux", {"/opt/helper"}) EXCEPT !.GYAZO_MCP_SERVER_PATH = "/opt/helper"]}

\* ------------------------------------------------------------------- state
VARIABLES
  childProcess,     \* this.childProcess: 0 is null, else the pid of the handle
  pendingRequests,  \* this.pendingRequests: set of [id, call] entries
  requestCounter,   \* this.requestCounter
  buffers,          \* this.buffers: the carry-over fragments
  isAvailable,      \* this._isAvailable
  procs,            \* pid -> "unborn" | "running" | "killed" | "exited" | "closed"
  stdin,            \* pid -> the envelopes written to the helper's input
  out,              \* pid -> the stdout text of the helper delivered so far
  calls,            \* call -> [op, st, val, pid]: the promise of each call
  emitted,          \* the messages handed to handleResponse, in order
  miscut,           \* some chunk ended where the trailing-brace test misjudges
                    \* its last piece: after a "}" inside a line, or at the
                    \* end of a line that does not end in "}"
  uncaught,         \* an exception escaped to the host program
  overBuffer,       \* some message was handed to handleResponse while the
                    \* carry-over buffer was not empty
  budget,           \* the budget of the behaviour
  host,             \* the environment of a path resolution (PathSpec)
  serverPath,       \* the serverPath that resolution returned (PathSpec)
  isDocker          \* the isDocker that resolution computed (PathSpec):
                    \* "true", "false", or "unevaluated"

vars ==
  <<childProcess, pendingRequests, requestCounter, buffers, isAvailable, procs,
    stdin, out, calls, emitted, miscut, uncaught, overBuffer, budget, host,
    serverPath, isDocker>>

\* The whole state as one record, so that an operation is a function on it.
Self ==
  [childProcess |-> childProcess, pendingRequests |-> pendingRequests,
   requestCounter |-> requestCounter, buffers |-> buffers,
   isAvailable |-> isAvailable, procs |-> procs, stdin |-> stdin, out |-> out,
   calls |-> calls, emitted |-> emitted, miscut |-> miscut,
   uncaught |-> uncaught, overBuffer |-> overBuffer]

Becomes(m) ==
  /\ childProcess' = m.childProcess
  /\ pendingRequests' = m.pendingRequests
  /\ requestCounter' = m.requestCounter
  /\ buffers' = m.buffers
  /\ isAvailable' = m.isAvailable
  /\ procs' = m.procs
  /\ stdin' = m.stdin
  /\ out' = m.out
  /\ calls' = m.calls
  /\ emitted' = m.emitted
  /\ miscut' = m.miscut
  /\ uncaught' = m.uncaught
  /\ overBuffer' = m.overBuffer
  /\ UNCHANGED <<budget, host, serverPath, isDocker>>

IdleCall == [op |-> "none", st |-> "idle", val |-> "", pid |-> 0]
Unresolved == "unresolved"

\* The facade right after construction.
Constructed ==
  /\ childProcess = 0
  /\ pendingRequests = {}
  /\ requestCounter = 0
  /\ buffers = <<>>
  /\ isAvailable = FALSE
  /\ procs = [p \in Pids |-> "unborn"]
  /\ stdin = [p \in Pids |-> <<>>]
  /\ out = [p \in Pids |-> <<>>]
  /\ calls = [c \in Calls |-> IdleCall]
  /\ emitted = <<>>
  /\ miscut = FALSE
  /\ uncaught = FALSE
  /\ overBuffer = FALSE

Init ==
  /\ Constructed
  /\ budget \in Budgets
  /\ host = BareHost("linux", {})
  /\ serverPath = Unresolved
  /\ isDocker = "unevaluated"

\* ---------------------------------------------------------------- promises
InitOps == {"initialize", "checkNativeCaptureAvailability"}
FacadeOps ==
  {"listCapturableWindows", "captureAndUploadPrimaryScreen",
   "captureAndUploadRegion", "captureAndUploadWindow"}

\* Settling the promise a call waits on.  A sendRequest or facade call is
\* completed by it; an initialize call awaits it and continues in a later
\* microtask (ContinueInitialize), in the try branch or in the catch branch.
settle(cs, c, ok, val) ==
  IF cs[c].op \in InitOps
  THEN [cs EXCEPT ![c].st = IF ok THEN "ready_ok" ELSE "ready_err"]
  ELSE [cs EXCEPT ![c].st = IF ok THEN "resolved" ELSE "rejected", ![c].val = val]

\* Map.has / Map.get / Map.set / Map.delete on the pending table
Has(table, id) == \E e \in table : e.id = id
Get(table, id) == (CHOOSE e \in table : e.id = id).call
Delete(table, id) == {e \in table : e.id # id}
Set(table, id, c) == Delete(table, id) \cup {[id |-> id, call |-> c]}

\* --------------------------------------------------------------- requests
Handshake == [method |-> "mcp.listTools", params |-> "{}"]
ToolCall(name, arguments) ==
  [method |-> "mcp.callTool",
   params |-> "{\"name\":\"" \o name \o "\",\"arguments\":" \o arguments \o "}"]
FacadeRequest(op) ==
  IF op = "listCapturableWindows"
  THEN ToolCall("list_capturable_windows", "{\"limit\":30}")
  ELSE IF op = "captureAndUploadPrimaryScreen"
  THEN ToolCall("capture_and_upload_primary_screen", "{}")
  ELSE IF op = "captureAndUploadRegion"
  THEN ToolCall("capture_and_upload_region", "{}")
  ELSE ToolCall("capture_and_upload_window", "{\"windowHandle\":\"w1\"}")
Requests == {Handshake} \cup {FacadeRequest(op) : op \in FacadeOps}

NotAvailableErrors ==
  {"Native MCP server is not available", "Native capture server is not available"}

\* sendRequest testing the process handle alone
sendRequestIgnoringFlag(m, c, request) ==
  IF m.childProcess = 0
  THEN [m EXCEPT !.calls = settle(@, c, FALSE, "Native MCP server is not available")]
  ELSE [m EXCEPT !.requestCounter = @ + 1,
                 !.pendingRequests = Set(@, toString(m.requestCounter), c),
                 !.stdin[m.childProcess] =
                   Append(@, [jsonrpc |-> "2.0", id |-> toString(m.requestCounter),
                              method |-> request.method, params |-> request.params])]

\* GyazoNativeMCPServer.sendRequest, called for the promise of call c
sendRequest(m, c, request) ==
  IF m.childProcess = 0 \/ ~m.isAvailable
  THEN [m EXCEPT !.calls = settle(@, c, FALSE, "Native MCP server is not available")]
  ELSE LET id == toString(m.requestCounter)
           jsonRpcRequest ==
             [jsonrpc |-> "2.0", id |-> id, method |-> request.method,
              params |-> request.params]
       IN [m EXCEPT !.requestCounter = @ + 1,
                    !.pendingRequests = Set(@, id, c),
                    !.stdin[m.childProcess] = Append(@, jsonRpcRequest)]

\* handleResponse without its try/catch: a message that is no envelope throws
handleResponseUnguarded(m, data) ==
  IF JSONparse(data).kind # "object" THEN [m EXCEPT !.uncaught = TRUE]
  ELSE IF Has(m.pendingRequests, JSONparse(data).value.id)
  THEN [m EXCEPT
          !.calls = settle(@, Get(m.pendingRequests, JSONparse(data).value.id),
                           ~JSONparse(data).value.hasError,
                           IF JSONparse(data).value.hasError
                           THEN JSONparse(data).value.message
                           ELSE JSONparse(data).value.result),
          !.pendingRequests = Delete(@, JSONparse(data).value.id)]
  ELSE m

\* handleResponse taking a response with an unknown id for a broken helper and
\* dropping the process handle
handleResponseDroppingHandle(m, data) ==
  IF JSONparse(data).kind # "object" THEN m
  ELSE IF Has(m.pendingRequests, JSONparse(data).value.id)
  THEN [m EXCEPT
          !.calls = settle(@, Get(m.pendingRequests, JSONparse(data).value.id),
                           ~JSONparse(data).value.hasError,
                           IF JSONparse(data).value.hasError
                           THEN JSONparse(data).value.message
                           ELSE JSONparse(data).value.result),
          !.pendingRequests = Delete(@, JSONparse(data).value.id)]
  ELSE [m EXCEPT !.childProcess = 0, !.isAvailable = FALSE]

\* GyazoNativeMCPServer.handleResponse
handleResponse(m, data) ==
  LET response == JSONparse(data) IN
  IF response.kind = "SyntaxError" THEN m          \* JSON.parse throws, caught
  ELSE IF response.kind = "null" THEN m            \* response.id throws, caught
  ELSE LET id == response.value.id IN
       IF Has(m.pendingRequests, id)
       THEN [m EXCEPT
               !.calls =
                 IF response.value.hasError
                 THEN settle(@, Get(m.pendingRequests, id), FALSE,
                             response.value.message)
                 ELSE settle(@, Get(m.pendingRequests, id), TRUE,
                             response.value.result),
               !.pendingRequests = Delete(@, id)]
       ELSE m

\* this.handleResponse(message) in the stdout listener
dispatch(m, message) ==
  handleResponse([m EXCEPT !.emitted = Append(@, message),
                           !.overBuffer = @ \/ m.buffers # <<>>],
                 message)

RECURSIVE processMessagesKeepingBuffer(_, _, _)
\* the for loop leaving the joined fragments in the buffer
processMessagesKeepingBuffer(m, messages, i) ==
  IF i > Len(messages) THEN m
  ELSE LET message == messages[i] IN
       IF Trim(message) = <<>>
       THEN processMessagesKeepingBuffer(m, messages, i + 1)
       ELSE IF i = Len(messages) /\ ~EndsWithBrace(message)
       THEN processMessagesKeepingBuffer(
              [m EXCEPT !.buffers = Append(@, message)], messages, i + 1)
       ELSE IF Len(m.buffers) > 0
       THEN processMessagesKeepingBuffer(
              dispatch([m EXCEPT !.buffers = Append(@, message)],
                       Join(Append(m.buffers, message))),
              messages, i + 1)
       ELSE processMessagesKeepingBuffer(dispatch(m, message), messages, i + 1)

RECURSIVE processMessagesWithoutTrim(_, _, _)
\* the for loop skipping a piece only if it is empty
processMessagesWithoutTrim(m, messages, i) ==
  IF i > Len(messages) THEN m
  ELSE LET message == messages[i] IN
       IF message = <<>>
       THEN processMessagesWithoutTrim(m, messages, i + 1)
       ELSE IF i = Len(messages) /\ ~EndsWithBrace(message)
       THEN processMessagesWithoutTrim(
              [m EXCEPT !.buffers = Append(@, message)], messages, i + 1)
       ELSE IF Len(m.buffers) > 0
       THEN processMessagesWithoutTrim(
              dispatch([m EXCEPT !.buffers = <<>>],
                       Join(Append(m.buffers, message))),
              messages, i + 1)
       ELSE processMessagesWithoutTrim(dispatch(m, message), messages, i + 1)

RECURSIVE processMessages(_, _, _)
\* the for loop of the stdout 'data' listener, from index i on
processMessages(m, messages, i) ==
  IF i > Len(messages) THEN m
  ELSE LET message == messages[i] IN
       IF Trim(message) = <<>> THEN processMessages(m, messages, i + 1)
       ELSE IF i = Len(messages) /\ ~EndsWithBrace(message)
       THEN processMessages([m EXCEPT !.buffers = Append(@, message)],
                            messages, i + 1)
       ELSE IF Len(m.buffers) > 0
       THEN processMessages(
              dispatch([m EXCEPT !.buffers = <<>>],
                       Join(Append(m.buffers, message))),
              messages, i + 1)
       ELSE processMessages(dispatch(m, message), messages, i + 1)

\* the stdout 'data' listener
onStdoutData(m, data) == processMessages(m, Split(data), 1)

\* the 'close' listener assigning the flag the wrong way round
onCloseRaisingFlag(m) == [m EXCEPT !.childProcess = 0, !.isAvailable = TRUE]

\* the 'close' listener
onClose(m) == [m EXCEPT !.childProcess = 0, !.isAvailable = FALSE]

\* initialize falling back to a bare command name when no path resolves
initializeWithFallback(m, c, env, spawnOk, pid) ==
  IF ~spawnOk
  THEN [m EXCEPT !.isAvailable = FALSE,
                 !.calls[c].st = "resolved", !.calls[c].val = "false"]
  ELSE sendRequest([m EXCEPT !.childProcess = pid,
                             !.procs[pid] = "running",
                             !.calls[c].pid = pid],
                   c, Handshake)

\* GyazoNativeMCPServer.initialize up to its await; spawnOk: spawn() returns a
\* handle (pid) rather than throwing
initialize(m, c, env, spawnOk, pid) ==
  IF getServerPath(env) = NoPath
  THEN [m EXCEPT !.isAvailable = FALSE,
                 !.calls[c].st = "resolved", !.calls[c].val = "false"]
  ELSE IF ~spawnOk
  THEN [m EXCEPT !.isAvailable = FALSE,
                 !.calls[c].st = "resolved", !.calls[c].val = "false"]
  ELSE sendRequest([m EXCEPT !.childProcess = pid,
                             !.procs[pid] = "running",
                             !.calls[c].pid = pid],
                   c, Handshake)

\* GyazoNativeMCPServer.initialize after its await
continueInitialize(m, c) ==
  IF m.calls[c].st = "ready_ok"
  THEN [m EXCEPT !.isAvailable = TRUE,
                 !.calls[c].st = "resolved", !.calls[c].val = "true"]
  ELSE [m EXCEPT !.isAvailable = FALSE,
                 !.calls[c].st = "resolved", !.calls[c].val = "false"]

\* checkNativeCaptureAvailability testing the process handle for the flag
checkTestingHandle(m, c, env, spawnOk, pid) ==
  IF m.childProcess = 0
  THEN initialize(m, c, env, spawnOk, pid)
  ELSE [m EXCEPT !.calls[c].st = "resolved", !.calls[c].val = "true"]

\* checkNativeCaptureAvailability
checkNativeCaptureAvailability(m, c, env, spawnOk, pid) ==
  IF ~m.isAvailable
  THEN initialize(m, c, env, spawnOk, pid)
  ELSE [m EXCEPT !.calls[c].st = "resolved", !.calls[c].val = "true"]

\* listCapturableWindows, captureAndUploadPrimaryScreen, captureAndUploadRegion,
\* captureAndUploadWindow
facade(m, c, op) ==
  IF ~m.isAvailable
  THEN [m EXCEPT !.calls = settle(@, c, FALSE, "Native capture server is not available")]
  ELSE sendRequest(m, c, FacadeRequest(op))

\* cleanup killing the helper only while the flag is true
cleanupWhenAvailable(m) ==
  IF m.isAvailable
  THEN [m EXCEPT !.procs = IF m.childProcess # 0 /\ m.procs[m.childProcess] = "running"
                           THEN [@ EXCEPT ![m.childProcess] = "killed"] ELSE @,
                 !.childProcess = 0,
                 !.isAvailable = FALSE]
  ELSE m

\* GyazoNativeMCPServer.cleanup
cleanup(m) ==
  [m EXCEPT !.procs = IF m.childProcess # 0 /\ m.procs[m.childProcess] = "running"
                      THEN [@ EXCEPT ![m.childProcess] = "killed"] ELSE @,
            !.childProcess = 0,
            !.isAvailable = FALSE]

\* ----------------------------------------------------------------- actions
\* Call slots are taken in order; a new process gets the next pid.
FreeCall(c) ==
  /\ c <= budget.calls
  /\ calls[c].st = "idle"
  /\ \A d \in Calls : d < c => calls[d].st # "idle"
NextPid == Cardinality({p \in Pids : procs[p] # "unborn"}) + 1
Start(m, c, op) ==
  [m EXCEPT !.calls[c] = [op |-> op, st |-> "pending", val |-> "", pid |-> 0]]

\* The continuation of an await is a microtask: it runs before any I/O
\* callback (a 'data' or 'close' event) does.
MicrotaskQueued == \E c \in Calls : calls[c].st \in {"ready_ok", "ready_err"}

\* The helper's output is a sequence of lines, each followed by a newline.
IsPrefix(s, t) == Len(s) <= Len(t) /\ SubSeq(t, 1, Len(s)) = s
RECURSIVE Streams(_)
\* the streams of exactly n lines
Streams(n) ==
  IF n = 0 THEN {<<>>}
  ELSE {t \o line \o <<NL>> : t \in Streams(n - 1), line \in HelperLines}
StreamsOf == [n \in 0 .. MaxLines |-> Streams(n)]
Count(s, tok) == Cardinality({i \in 1 .. Len(s) : s[i] = tok})
\* lines begun so far: the newlines, and a last line still without one
LinesBegun(s) ==
  Count(s, NL) + (IF s # <<>> /\ s[Len(s)] # NL THEN 1 ELSE 0)
\* the text after the last newline
RECURSIVE CurrentLine(_)
CurrentLine(s) ==
  IF s = <<>> \/ s[Len(s)] = NL THEN <<>>
  ELSE Append(CurrentLine(SubSeq(s, 1, Len(s) - 1)), s[Len(s)])

\* cur, the text after the last newline when a chunk ends, is misjudged
Miscut(cur) ==
  \/ EndsWithBrace(cur) /\ cur \notin HelperLines
  \/ cur \in HelperLines /\ ~EndsWithBrace(cur)

Initialize(c, env, spawnOk) ==
  /\ FreeCall(c)
  /\ NextPid <= budget.procs
  /\ Becomes(initialize(Start(Self, c, "initialize"), c, env, spawnOk, NextPid))

CheckAvailability(c, env, spawnOk) ==
  /\ FreeCall(c)
  /\ NextPid <= budget.procs
  /\ Becomes(checkNativeCaptureAvailability(
               Start(Self, c, "checkNativeCaptureAvailability"),
               c, env, spawnOk, NextPid))

ContinueInitialize(c) ==
  /\ calls[c].st \in {"ready_ok", "ready_err"}
  /\ Becomes(continueInitialize(Self, c))

SendRequest(c, request) ==
  /\ FreeCall(c)
  /\ Becomes(sendRequest(Start(Self, c, "sendRequest"), c, request))

Facade(c, op) ==
  /\ FreeCall(c)
  /\ Becomes(facade(Start(Self, c, op), c, op))

Cleanup ==
  /\ Becomes(cleanup(Self))

\* A chunk of the helper's output arrives: the next tokens of a stream t of
\* lines, cut anywhere.  A process that has exited can have output left in
\* the pipe until its 'close' event.
Data(p, t) ==
  /\ procs[p] \in {"running", "killed", "exited"}
  /\ ~MicrotaskQueued
  /\ IsPrefix(out[p], t)
  /\ \E j \in (Len(out[p]) + 1) .. Len(t) :
       LET data == SubSeq(t, Len(out[p]) + 1, j) IN
       Becomes(onStdoutData(
                 [Self EXCEPT
                    !.out[p] = @ \o data,
                    !.miscut = @ \/ Miscut(CurrentLine(out[p] \o data))],
                 data))

\* the lines the budget leaves to process p
LinesLeftTo(p) ==
  budget.lines
    - LinesBegun(Concat([q \in Pids |-> IF q = p THEN <<>> ELSE out[q]]))

\* The helper exits by itself.
HelperExit(p) ==
  /\ procs[p] = "running"
  /\ procs' = [procs EXCEPT ![p] = "exited"]
  /\ UNCHANGED <<childProcess, pendingRequests, requestCounter, buffers,
                 isAvailable, stdin, out, calls, emitted, miscut,
                 uncaught, overBuffer, budget, host, serverPath, isDocker>>

\* The 'close' event of a process that exited or was killed.
Close(p) ==
  /\ procs[p] \in {"killed", "exited"}
  /\ ~MicrotaskQueued
  /\ Becomes(onClose([Self EXCEPT !.procs[p] = "closed"]))

Next ==
  \/ \E c \in Calls, env \in Hosts, spawnOk \in BOOLEAN : Initialize(c, env, spawnOk)
  \/ \E c \in Calls, env \in Hosts, spawnOk \in BOOLEAN :
       CheckAvailability(c, env, spawnOk)
  \/ \E c \in Calls : ContinueInitialize(c)
  \/ \E c \in Calls, request \in Requests : SendRequest(c, request)
  \/ \E c \in Calls, op \in FacadeOps : Facade(c, op)
  \/ Cleanup
  \/ \E p \in Pids : \E t \in StreamsOf[LinesLeftTo(p)] : Data(p, t)
  \/ \E p \in Pids : HelperExit(p)
  \/ \E p \in Pids : Close(p)

Spec == Init /\ [][Next]_vars

\* ------------------------------------------- path resolution on its own
\* getServerPath applied once to any environment: every OS family, every
\* environment variable set or not, every set of candidate files, every
\* content of /proc/1/cgroup.
CUSTOM_PATH == "/opt/gyazo/helper"
CUSTOM_WIN_PATH == "D:\\Gyazo\\GyazoWinMCPServer.exe"
CUSTOM_MAC_PATH == "/opt/gyazo/GyazoMacMCPServer"
CandidateFiles ==
  {CUSTOM_PATH, CUSTOM_WIN_PATH, CUSTOM_MAC_PATH, DEFAULT_WIN_PATH,
   DEFAULT_MAC_PATH, DOCKER_WIN_MCP_SERVER_PATH, DOCKER_MAC_MCP_SERVER_PATH,
   "/.dockerenv"}
Environments ==
  [os : {"win32", "darwin", "linux"},
   files : SUBSET CandidateFiles,
   cgroup : {"absent", "unreadable", "docker", "containerd", "none"},
   GYAZO_MCP_SERVER_PATH : {Unset, CUSTOM_PATH},
   GYAZO_WIN_MCP_SERVER_PATH : {Unset, CUSTOM_WIN_PATH},
   GYAZO_MAC_MCP_SERVER_PATH : {Unset, CUSTOM_MAC_PATH},
   DOCKER_CONTAINER : {Unset, "true"},
   KUBERNETES_SERVICE_HOST : {Unset, "10.0.0.1"}]

PathInit ==
  /\ Constructed
  /\ budget \in {[calls |-> 0, procs |-> 0, lines |-> 0]}
  /\ host \in Environments
  /\ serverPath = Unresolved
  /\ isDocker = "unevaluated"

Resolve ==
  /\ serverPath = Unresolved
  /\ serverPath' = getServerPath(host)
  /\ isDocker' = IF host.GYAZO_MCP_SERVER_PATH # Unset THEN "unevaluated"
                 ELSE IF isRunningInDocker(host) THEN "true" ELSE "false"
  /\ UNCHANGED <<childProcess, pendingRequests, requestCounter, buffers,
                 isAvailable, procs, stdin, out, calls, emitted, miscut,
                 uncaught, overBuffer, budget, host>>

PathNext ==
  \/ Resolve

PathSpec == PathInit /\ [][PathNext]_vars

\* --------------------------------------------------- the framer on its own
\* One helper writing any text over a small alphabet (content, a closing
\* brace, a blank, a newline), cut into chunks anywhere.
FramerAlphabet == {"x", "}", " ", NL}
FramerChunks == UNION {[1 .. n -> FramerAlphabet] : n \in 1 .. MaxTokens}

FramerInit ==
  /\ Constructed
  /\ budget \in {[calls |-> 1, procs |-> 1, lines |-> 0]}
  /\ host = BareHost("linux", {})
  /\ serverPath = Unresolved
  /\ isDocker = "unevaluated"

FramerData(p, data) ==
  /\ procs[p] \in {"running", "killed", "exited"}
  /\ ~MicrotaskQueued
  /\ Len(out[p]) + Len(data) <= MaxTokens
  /\ Becomes(onStdoutData(
               [Self EXCEPT
                  !.out[p] = @ \o data,
                  !.miscut = @ \/ Miscut(CurrentLine(out[p] \o data))],
               data))

FramerNext ==
  \/ \E c \in Calls, env \in Hosts, spawnOk \in BOOLEAN : Initialize(c, env, spawnOk)
  \/ \E c \in Calls : ContinueInitialize(c)
  \/ \E p \in Pids, data \in FramerChunks : FramerData(p, data)

FramerSpec == FramerInit /\ [][FramerNext]_vars

\* ------------------------------------------------------------ properties
\* Vocabulary of the properties.
IsCall(c, ops, st) == calls[c].op \in ops /\ calls[c].st = st
HandshakeSentTo(p) ==
  \E i \in 1 .. Len(stdin[p]) :
    stdin[p][i].method = Handshake.method /\ stdin[p][i].params = Handshake.params
Producers == {p \in Pids : out[p] # <<>>}
\* the lines of a text that are ended by a newline
TerminatedLines(s) ==
  LET pieces == Split(s) IN SubSeq(pieces, 1, Len(pieces) - 1)
EnvelopeTexts == {ResponseText(r) : r \in Responses}
RECURSIVE EnvelopeStreams(_)
EnvelopeStreams(n) ==
  IF n = 0 THEN {<<>>}
  ELSE EnvelopeStreams(n - 1)
         \cup {t \o line \o <<NL>> : t \in EnvelopeStreams(n - 1), line \in EnvelopeTexts}
AllEnvelopeStreams == EnvelopeStreams(MaxLines)
NewlyEmitted == {emitted'[i] : i \in (Len(emitted) + 1) .. Len(emitted')}

\* The handshake of initialize is refused by sendRequest's own guard, so no
\* request is ever accepted: the flag stays false, the pending table empty
\* and the counter 0 in every reachable state.
NoRequestIsEverAccepted ==
  /\ isAvailable = FALSE
  /\ pendingRequests = {}
  /\ requestCounter = 0
  /\ \A p \in Pids : stdin[p] = <<>>

\* C1: an initialize call that resolved a path and spawned the helper sends
\* the handshake (mcp.listTools, empty params) to it, and, the helper having
\* answered with a result and still running, returns true with isAvailable
\* true.  Stated of the finished call: it returned false only if the helper
\* is gone or answered with an error.
C1_InitializeReachesRunning ==
  \A c \in Calls :
    (calls[c].op = "initialize" /\ calls[c].pid # 0) =>
      /\ HandshakeSentTo(calls[c].pid)
      /\ (calls[c].st = "resolved" /\ procs[calls[c].pid] = "running"
            /\ IsPrefix(ResponseText(ResultResponse("0", "1")) \o <<NL>>,
                        out[calls[c].pid]))
           => calls[c].val = "true"

\* C2: sendRequest and the four typed operations, called while isAvailable is
\* false or no process handle exists, fail at once with a 'not available'
\* error, write nothing to the helper's input and leave the request counter
\* and the pending table as they were.
C2_UnavailableFailsFast ==
  [][\A c \in Calls :
       (/\ calls[c].st = "idle"
        /\ calls'[c].op \in {"sendRequest"} \cup FacadeOps
        /\ (~isAvailable \/ childProcess = 0))
         => /\ calls'[c].st = "rejected"
            /\ calls'[c].val \in NotAvailableErrors
            /\ stdin' = stdin
            /\ requestCounter' = requestCounter
            /\ pendingRequests' = pendingRequests]_vars

\* a sendRequest call was refused although a process handle exists
C2_Witness ==
  /\ childProcess # 0
  /\ procs[childProcess] = "running"
  /\ \E c \in Calls : IsCall(c, {"sendRequest"}, "rejected")

\* C4: however a stream of newline-terminated response envelopes is cut into
\* chunks, the framer hands exactly the lines of the stream to
\* handleResponse, in order.  Stated of a stream delivered in full by one
\* process.
C4_OneMessagePerLine ==
  \A p \in Pids :
    (Producers = {p} /\ out[p] \in AllEnvelopeStreams)
      => emitted = TerminatedLines(out[p])

\* C5: a trailing fragment that does not end in "}" is buffered while the
\* complete lines before it are emitted, and the rest of its line, once it
\* arrives, is emitted joined to it, once.  Stated of the output of one
\* process as long as no chunk ended at a miscut: the messages emitted are
\* the lines delivered so far, and the buffer holds the unfinished line.
C5_FragmentsAreCarriedOver ==
  \A p \in Pids :
    (Producers = {p} /\ ~miscut) =>
      LET cur == CurrentLine(out[p]) IN
      IF EndsWithBrace(cur)
      THEN emitted = Append(TerminatedLines(out[p]), cur) /\ buffers = <<>>
      ELSE emitted = TerminatedLines(out[p]) /\ Concat(buffers) = cur

\* the first chunk of {"id":"0","result":1}\n{"id":"1"  has been processed
C5_Witness ==
  /\ ~miscut
  /\ emitted = <<ResponseText(ResultResponse("0", "1"))>>
  /\ buffers = << <<"{", "\"id\":\"1\"">> >>

\* C6: dispatching a well-formed response whose id has no pending entry
\* completes no caller and leaves the pending table, the request counter,
\* the availability flag and the process handle as they were.
C6_UnmatchedResponseIsIgnored ==
  [][(/\ NewlyEmitted # {}
      /\ \A msg \in NewlyEmitted :
           /\ JSONparse(msg).kind = "object"
           /\ ~Has(pendingRequests, JSONparse(msg).value.id))
       => UNCHANGED <<pendingRequests, requestCounter, isAvailable,
                      childProcess, calls>>]_vars

\* a response envelope was dispatched while a process handle exists
C6_Witness ==
  /\ childProcess # 0
  /\ \E i \in 1 .. Len(emitted) : JSONparse(emitted[i]).kind = "object"

\* C7: dispatching a message that does not parse as a response envelope
\* raises no error, completes no caller and leaves the pending table as it
\* was.
C7_MalformedMessageIsDropped ==
  [][(/\ NewlyEmitted # {}
      /\ \A msg \in NewlyEmitted : JSONparse(msg).kind # "object")
       => /\ uncaught' = FALSE
          /\ UNCHANGED <<pendingRequests, calls>>]_vars

\* text that is no JSON, and the JSON value null, were dispatched
C7_Witness ==
  /\ \E i \in 1 .. Len(emitted) : JSONparse(emitted[i]).kind = "SyntaxError"
  /\ \E i \in 1 .. Len(emitted) : JSONparse(emitted[i]).kind = "null"

\* C11: an initialize call that resolves no helper path returns false,
\* spawns no process and leaves isAvailable false; so does every
\* checkNativeCaptureAvailability call that resolves no path, however many
\* are made: each returns false, raises nothing and creates no process
\* handle.
C11_MissingHelperSpawnsNothing ==
  [][\A c \in Calls, env \in Hosts, spawnOk \in BOOLEAN :
       (/\ getServerPath(env) = NoPath
        /\ (Initialize(c, env, spawnOk) \/ CheckAvailability(c, env, spawnOk)))
         => /\ calls'[c].st = "resolved"
            /\ calls'[c].val = "false"
            /\ isAvailable' = FALSE
            /\ uncaught' = FALSE
            /\ procs' = procs
            /\ childProcess' = childProcess
            /\ stdin' = stdin]_vars

\* two checkNativeCaptureAvailability calls have returned false and no
\* process was ever spawned
C11_Witness ==
  /\ \A p \in Pids : procs[p] = "unborn"
  /\ childProcess = 0
  /\ IsCall(1, {"checkNativeCaptureAvailability"}, "resolved")
  /\ IsCall(2, {"checkNativeCaptureAvailability"}, "resolved")
  /\ calls[1].val = "false" /\ calls[2].val = "false"

\* C12: a checkNativeCaptureAvailability call made while isAvailable is true
\* returns true, spawns nothing and sends nothing; made while isAvailable is
\* false it does what one initialize call does in the same state and
\* environment, and returns what that call returns; it never raises.
C12_CheckAvailabilityIsInitializeOnce ==
  [][\A c \in Calls, env \in Hosts, spawnOk \in BOOLEAN :
       CheckAvailability(c, env, spawnOk) =>
         /\ uncaught' = FALSE
         /\ IF isAvailable
            THEN /\ calls'[c].st = "resolved"
                 /\ calls'[c].val = "true"
                 /\ procs' = procs
                 /\ stdin' = stdin
                 /\ childProcess' = childProcess
            ELSE Self' =
                   [initialize(Start(Self, c, "initialize"), c, env, spawnOk, NextPid)
                      EXCEPT !.calls[c].op = "checkNativeCaptureAvailability"]]_vars

\* a checkNativeCaptureAvailability call ran initialize, which spawned a
\* helper, and returned initialize's outcome while a handle was left behind
C12_Witness ==
  \E c \in Calls :
    /\ IsCall(c, {"checkNativeCaptureAvailability"}, "resolved")
    /\ calls[c].pid # 0
    /\ calls[c].val = "false"
    /\ childProcess = calls[c].pid

\* C13: cleanup, called in any state, ends with no process handle and
\* isAvailable false; the helper the handle referred to is no longer running
\* and no other process is touched (so nothing is killed when there was no
\* handle); a second cleanup right after changes nothing.  Stated of cleanup
\* applied to every reachable state.
C13_CleanupIsIdempotent ==
  LET once == cleanup(Self)
      twice == cleanup(once)
  IN /\ once.childProcess = 0
     /\ once.isAvailable = FALSE
     /\ (childProcess # 0 => once.procs[childProcess] # "running")
     /\ \A p \in Pids : p # childProcess => once.procs[p] = procs[p]
     /\ once.uncaught = uncaught
     /\ twice = once

\* cleanup has killed a running helper and cleared its handle
C13_Witness ==
  /\ childProcess = 0
  /\ \E p \in Pids : procs[p] = "killed"

\* C15: at most one spawned helper process is alive (neither exited nor
\* killed) at any time, whatever the calls of initialize,
\* checkNativeCaptureAvailability and cleanup and the helper's events.
C15_AtMostOneLiveHelper ==
  Cardinality({p \in Pids : procs[p] = "running"}) <= 1

\* C19: the helper's exit notification leaves isAvailable false; only the
\* continuation of an initialize call whose handshake succeeded ever turns
\* isAvailable from false to true, so it stays false until an initialize
\* call returns true; while it is false every sendRequest fails with 'not
\* available'; and an initialize call made after the exit, in an environment
\* where the path resolves and spawn succeeds, spawns a new helper and takes
\* its handle.
C19_StoppedUntilInitializeSucceeds ==
  [][/\ (\E p \in Pids : Close(p)) => isAvailable' = FALSE
     /\ (~isAvailable /\ isAvailable') =>
          \E c \in Calls :
            /\ calls[c].op \in InitOps
            /\ calls[c].st = "ready_ok"
            /\ calls'[c].st = "resolved"
            /\ calls'[c].val = "true"
     /\ \A c \in Calls :
          (calls[c].st = "idle" /\ calls'[c].op = "sendRequest" /\ ~isAvailable)
            => /\ calls'[c].st = "rejected"
               /\ calls'[c].val = "Native MCP server is not available"
     /\ \A c \in Calls, env \in Hosts :
          (/\ \E p \in Pids : procs[p] = "closed"
           /\ getServerPath(env) # NoPath
           /\ Initialize(c, env, TRUE))
            => /\ procs[NextPid] = "unborn"
               /\ procs'[NextPid] = "running"
               /\ childProcess' = NextPid]_vars

\* the first helper's exit was notified, a sendRequest was then refused, and
\* a later initialize call spawned a second helper, while isAvailable is false
C19_Witness ==
  /\ procs[1] = "closed"
  /\ IsCall(2, {"sendRequest"}, "rejected")
  /\ calls[3].op = "initialize" /\ calls[3].pid = 2
  /\ childProcess = 2
  /\ procs[2] = "running"
  /\ ~isAvailable

\* C20: with GYAZO_MCP_SERVER_PATH set (to a non-empty value), getServerPath
\* returns that path if it exists on disk and nothing otherwise, whatever the
\* container signals, the OS, the OS-specific variables and the existence of
\* the default and container-mount paths.
C20_OverrideHasNoFallback ==
  (serverPath # Unresolved /\ host.GYAZO_MCP_SERVER_PATH # Unset) =>
    serverPath = IF host.GYAZO_MCP_SERVER_PATH \in host.files
                 THEN host.GYAZO_MCP_SERVER_PATH
                 ELSE NoPath

\* the override names a missing file and nothing is returned, although the
\* process runs in a container on macOS where the default path and both
\* container-mount paths exist
C20_Witness ==
  /\ serverPath = NoPath
  /\ host.GYAZO_MCP_SERVER_PATH = CUSTOM_PATH
  /\ host.os = "darwin"
  /\ host.files = CandidateFiles \ {CUSTOM_PATH}

\* C21: the process is taken to run in a container exactly when the marker
\* file /.dockerenv exists, or /proc/1/cgroup names docker or containerd, or
\* DOCKER_CONTAINER or KUBERNETES_SERVICE_HOST is set, for every combination
\* of the three signals, a cgroup file that names no runtime included.
C21_DetectionIsDisjunction ==
  isDocker # "unevaluated" =>
    (isDocker = "true"
       <=> \/ "/.dockerenv" \in host.files
           \/ host.cgroup \in {"docker", "containerd"}
           \/ host.DOCKER_CONTAINER # Unset
           \/ host.KUBERNETES_SERVICE_HOST # Unset)

\* C22: with no override set and no container detected, getServerPath
\* returns the Windows path iff the OS is win32 and that path exists, the
\* macOS path iff the OS is darwin and that path exists, and nothing in
\* every other case; the path of an OS is its default install path, or what
\* the OS's own variable replaces it with.
C22_OsDefaultPath ==
  (serverPath # Unresolved /\ host.GYAZO_MCP_SERVER_PATH = Unset
     /\ isDocker = "false") =>
    LET win == IF host.GYAZO_WIN_MCP_SERVER_PATH # Unset
               THEN host.GYAZO_WIN_MCP_SERVER_PATH ELSE DEFAULT_WIN_PATH
        mac == IF host.GYAZO_MAC_MCP_SERVER_PATH # Unset
               THEN host.GYAZO_MAC_MCP_SERVER_PATH ELSE DEFAULT_MAC_PATH
    IN serverPath = IF host.os = "win32" /\ win \in host.files THEN win
                    ELSE IF host.os = "darwin" /\ mac \in host.files THEN mac
                    ELSE NoPath

\* on a bare Linux host where both default install paths exist and no
\* variable is set, nothing is returned
C22_Witness ==
  /\ serverPath = NoPath
  /\ isDocker = "false"
  /\ host = BareHost("linux", {DEFAULT_WIN_PATH, DEFAULT_MAC_PATH})

\* C29: in a detected container, with no override set, getServerPath returns
\* the Windows mount path if it exists, else the macOS mount path if it
\* exists, else nothing, whatever the OS and the default install paths.
C29_ContainerMountPath ==
  (serverPath # Unresolved /\ host.GYAZO_MCP_SERVER_PATH = Unset
     /\ isDocker = "true") =>
    serverPath = IF DOCKER_WIN_MCP_SERVER_PATH \in host.files
                 THEN DOCKER_WIN_MCP_SERVER_PATH
                 ELSE IF DOCKER_MAC_MCP_SERVER_PATH \in host.files
                 THEN DOCKER_MAC_MCP_SERVER_PATH
                 ELSE NoPath

\* in a container on macOS where the default install path exists and neither
\* mount path does, nothing is returned
C29_Witness ==
  /\ serverPath = NoPath
  /\ isDocker = "true"
  /\ host.os = "darwin"
  /\ host.files = {"/.dockerenv", DEFAULT_MAC_PATH}

\* C24: a message is never handed to handleResponse while the carry-over
\* buffer holds a fragment (the buffer is cleared before the joined message
\* is dispatched), and no fragment goes into two messages: every token the
\* helpers wrote, newlines apart, is in exactly one emitted message or still
\* in the buffer.
C24_BufferClearedBeforeDispatch ==
  /\ ~overBuffer
  /\ Len(Concat(emitted)) + Len(Concat(buffers))
       = Len(SelectSeq(Concat([p \in Pids |-> out[p]]), LAMBDA tok : tok # NL))

\* the buffered fragment oops was joined to the next line and dispatched
\* with it, and the buffer is empty
C24_Witness ==
  /\ emitted = <<GarbageLine \o ResponseText(ResultResponse("0", "1"))>>
  /\ buffers = <<>>

\* C25: the 'close' notification of a helper that is no longer the current
\* one (a later initialize superseded it, or cleanup cleared its handle
\* before a new initialize) leaves the handle of the current helper and the
\* availability flag as they were.
C25_StaleCloseIsIgnored ==
  [][\A p \in Pids :
       (Close(p) /\ childProcess # 0 /\ childProcess # p)
         => UNCHANGED <<childProcess, isAvailable>>]_vars

\* C26: the carry-over buffer holds fragments of the current helper only.
\* Stated of a new helper that has written nothing yet, every earlier helper
\* having exited or been killed and closed: the buffer is empty when its
\* first chunk is processed.
C26_BufferBelongsToCurrentHelper ==
  (/\ childProcess # 0
   /\ out[childProcess] = <<>>
   /\ \A q \in Pids : q # childProcess => procs[q] \in {"unborn", "closed"})
    => buffers = <<>>

\* the pieces of a chunk, and the chunk a step delivered from process p
Pieces(data) == Split(data)
Blank(piece) == Trim(piece) = <<>>
Delivered(p) == SubSeq(out'[p], Len(out[p]) + 1, Len(out'[p]))

\* C28: an empty or whitespace-only piece of a chunk emits no message and
\* leaves the carry-over buffer as it was, a fragment pending or not: a chunk
\* whose pieces are all blank (a lone newline included) changes neither the
\* emitted messages nor the buffer, and a chunk emits at most one message
\* per piece that is not blank, none of them blank.
C28_BlankPieceIsSkipped ==
  [][\A p \in Pids :
       out'[p] # out[p] =>
         LET pieces == Pieces(Delivered(p))
             solid == {i \in 1 .. Len(pieces) : ~Blank(pieces[i])}
         IN /\ solid = {} => UNCHANGED <<emitted, buffers>>
            /\ Len(emitted') - Len(emitted) <= Cardinality(solid)
            /\ \A msg \in NewlyEmitted : ~Blank(msg)]_vars

\* the fragment x is still buffered, and nothing was emitted, after a lone
\* newline and a line of one blank followed it
C28_Witness ==
  /\ out[1] = <<"x", NL, " ", NL>>
  /\ buffers = << <<"x">> >>
  /\ emitted = <<>>

====
